---- MODULE Spec2Model ----
(***************************************************************************)
(* State-machine model of vlouf/update_cpol1b:                             *)
(*   - update_cpol1b.py   : chunks, update_data, main (pebble pool driver)  *)
(*   - reprocess_v2018.py : update_dataset, remove, main (dask bag driver)  *)
(* Text is modelled as a sequence of one-character strings so that          *)
(* formatting, joining, matching and sorting are computed, not assumed.     *)
(***************************************************************************)
EXTENDS Integers, Sequences, FiniteSets, TLC

VARIABLES
    \* ---- chunks(l, n) applied to drawn inputs
    cl, cn, cout,
    \* ---- update_cpol1b.main
    tree, flist, pc, k, pool, ntasks, sched, running, consumed, submitted,
    npools, last,
    \* ---- update_cpol1b.update_data on one input file
    tpc, tin, troot, fields, klist, outname, disk, fone, out, nwrites, run,
    \* ---- reprocess_v2018.main on one zip file
    rzip, rmain, rtask, rin, rout, rattrs

chunkVars == <<cl, cn, cout>>
mainVars == <<tree, flist, pc, k, pool, ntasks, sched, running, consumed,
              submitted, npools, last>>
trVars == <<tpc, tin, troot, fields, klist, outname, disk, fone, out, nwrites,
            run>>
rpVars == <<rzip, rmain, rtask, rin, rout, rattrs>>
vars == <<chunkVars, mainVars, trVars, rpVars>>

\* ------------------------------------------------------------------------
\* Bounds of the model
\* ------------------------------------------------------------------------
MaxLen == 17
MaxN == 17
MaxFiles == 17
MaxWorkers == 2
MaxFields == 4
MaxRuns == 2
MaxInputs == 2

\* ------------------------------------------------------------------------
\* Program constants and configuration
\* ------------------------------------------------------------------------
\* chunks(flist, 16)
ChunkSize == 16
\* --year default
YEAR == 2017
\* INPATH (input root, with its trailing slash) and OUTPATH (output root)
INPATH == <<"/", "i", "n", "/">>
OUTPATH == <<"/", "o", "u", "t">>

\* ------------------------------------------------------------------------
\* Text helpers
\* ------------------------------------------------------------------------
Min(a, b) == IF a <= b THEN a ELSE b

\* Characters in code-point order ('.' < '/' < digits < '_' < letters).
Alphabet == <<".", "/", "0", "1", "2", "3", "4", "5", "6", "7", "8", "9", "_",
              "a", "b", "c", "d", "e", "f", "g", "h", "i", "j", "k", "l", "m",
              "n", "o", "p", "q", "r", "s", "t", "u", "v", "w", "x", "y", "z">>

Ord(c) == CHOOSE i \in 1..Len(Alphabet) : Alphabet[i] = c

Digit(d) == Alphabet[d + 3]

RECURSIVE Dec(_)
\* str(n) for n >= 0
Dec(n) == IF n < 10 THEN <<Digit(n)>> ELSE Dec(n \div 10) \o <<Digit(n % 10)>>

RECURSIVE Pad(_, _)
\* zero-padded decimal of width w (strftime %m, %d, %H, %M)
Pad(n, w) == IF w <= 1 THEN Dec(n) ELSE
             IF Len(Dec(n)) >= w THEN Dec(n) ELSE <<"0">> \o Pad(n, w - 1)

EndsWith(s, suf) ==
    /\ Len(s) >= Len(suf)
    /\ SubSeq(s, Len(s) - Len(suf) + 1, Len(s)) = suf

\* os.path.join(a, b) on posix
Join(a, b) ==
    IF Len(b) > 0 /\ b[1] = "/" THEN b
    ELSE IF Len(a) = 0 \/ a[Len(a)] = "/" THEN a \o b
    ELSE a \o <<"/">> \o b

\* Python's str comparison a < b (lexicographic by code point)
RECURSIVE StrLess(_, _)
StrLess(a, b) ==
    IF Len(b) = 0 THEN FALSE
    ELSE IF Len(a) = 0 THEN TRUE
    ELSE IF a[1] = b[1] THEN StrLess(Tail(a), Tail(b))
    ELSE Ord(a[1]) < Ord(b[1])

RECURSIVE sorted(_)
\* sorted(iterable of distinct str)
sorted(S) ==
    IF S = {} THEN <<>>
    ELSE LET m == CHOOSE x \in S : \A y \in S \ {x} : StrLess(x, y)
         IN <<m>> \o sorted(S \ {m})

\* ------------------------------------------------------------------------
\* chunks(l, n)
\* ------------------------------------------------------------------------
RECURSIVE range(_, _, _)
\* range(start, stop, step) for step >= 1
range(start, stop, step) ==
    IF start >= stop THEN <<>>
    ELSE <<start>> \o range(start + step, stop, step)

\* l[i:j] with 0 <= i <= j (0-based, end exclusive, clipped to len(l))
Slice(l, i, j) == SubSeq(l, i + 1, Min(j, Len(l)))

\* faulty variant: the slice drops the last element of every group
chunks_short(l, n) ==
    LET r == range(0, Len(l), n)
    IN [g \in 1..Len(r) |-> Slice(l, r[g], r[g] + n - 1)]

\* the list of groups the generator yields
chunks(l, n) ==
    LET r == range(0, Len(l), n)
    IN [g \in 1..Len(r) |-> Slice(l, r[g], r[g] + n)]

\* ------------------------------------------------------------------------
\* Specification of chunks as a pure function: inputs are drawn, then the
\* function is applied.
\* ------------------------------------------------------------------------
ChunksIdle == cl = <<>> /\ cn = 1 /\ cout = <<"idle">>

ChunksDraw ==
    /\ cl \in {[i \in 1..m |-> i] : m \in 0..MaxLen}
    /\ cn \in 1..MaxN
    /\ cout = <<"pending">>

ChunksApply ==
    /\ cout = <<"pending">>
    /\ cout' = <<"done", chunks(cl, cn)>>
    /\ UNCHANGED <<cl, cn>>

\* a start time (radar.time decoded by num2pydate)
Stamp(y, mo, d, h, mi, sec) ==
    [year |-> y, month |-> mo, day |-> d, hour |-> h, minute |-> mi, second |-> sec]

NC == <<".", "n", "c">>

\* ------------------------------------------------------------------------
\* update_data: names derived from the start time of the volume
\* ------------------------------------------------------------------------
\* strftime("%Y"): the C library prints the year unpadded, 999 gives "999"
strftime_Y(t) == Dec(t.year)

\* radar_start_date.strftime("%Y%m%d")
daystr(t) == strftime_Y(t) \o Pad(t.month, 2) \o Pad(t.day, 2)

\* radar_start_date.strftime("%Y%m%d.%H%M")
datestr(t) == daystr(t) \o <<".">> \o Pad(t.hour, 2) \o Pad(t.minute, 2)

B1Prefix == <<"t", "w", "p", "1", "0", "c", "p", "o", "l", "p", "p", "i", ".",
              "b", "1", ".">>

\* faulty variant: the seconds of the start time go into the name
filename_seconds(t) == B1Prefix \o datestr(t) \o Pad(t.second, 2) \o NC

\* "twp10cpolppi.b1.{}00.nc".format(...)
filename(t) == B1Prefix \o datestr(t) \o <<"0", "0">> \o NC

\* os.path.join(OUTPATH, str(radar_start_date.year))
outdir(root, t) == Join(root, Dec(t.year))

\* os.path.join(outdir, daystr)
outdir_day(root, t) == Join(outdir(root, t), daystr(t))

\* os.path.join(outdir_day, filename)
outfilename(root, t) == Join(outdir_day(root, t), filename(t))

\* ------------------------------------------------------------------------
\* update_cpol1b.update_data: the Volume and its field edits.
\* radar.fields maps a field name to its dictionary:
\*   data       the input field the array comes from
\*   dtype      numeric type of the array
\*   afill      fill_value of the masked array
\*   FillValue  the _FillValue attribute ("default": as read)
\*   lsd        the _Least_significant_digit attribute (0: not set)
\*   std        the dictionary has a standard_name
\*   bad        the dictionary has grid_mapping / coordinates / sampling_ratio
\* ------------------------------------------------------------------------
keys_drop == {"temperature", "specific_attenuation_reflectivity",
              "specific_attenuation_differential_reflectivity",
              "velocity_texture"}

klist_pr == <<
    [key |-> "D0", lsd |-> 2, fill |-> "NaN"],
    [key |-> "velocity", lsd |-> 2, fill |-> "NaN"],
    [key |-> "total_power", lsd |-> 2, fill |-> "NaN"],
    [key |-> "corrected_reflectivity", lsd |-> 2, fill |-> "NaN"],
    [key |-> "cross_correlation_ratio", lsd |-> 4, fill |-> "NaN"],
    [key |-> "corrected_differential_reflectivity", lsd |-> 4, fill |-> "NaN"],
    [key |-> "corrected_differential_phase", lsd |-> 4, fill |-> "NaN"],
    [key |-> "corrected_specific_differential_phase", lsd |-> 4, fill |-> "NaN"],
    [key |-> "differential_reflectivity", lsd |-> 4, fill |-> "NaN"],
    [key |-> "differential_phase", lsd |-> 4, fill |-> "NaN"],
    [key |-> "spectrum_width", lsd |-> 4, fill |-> "NaN"],
    [key |-> "signal_to_noise_ratio", lsd |-> 2, fill |-> "NaN"],
    [key |-> "corrected_velocity", lsd |-> 2, fill |-> "NaN"] >>

\* the field names an input Volume is drawn from
FieldNames ==
    keys_drop \cup
    {"reflectivity", "corrected_reflectivity", "raw_velocity", "velocity",
     "region_dealias_velocity", "corrected_velocity",
     "radar_echo_classification", "radar_estimated_rain_rate", "NW", "D0",
     "cross_correlation_ratio"}

\* a field as pyart.io.read returns it
InField(name) ==
    [data |-> name,
     dtype |-> IF name = "radar_echo_classification" THEN "int64" ELSE "float64",
     afill |-> "default", FillValue |-> "default", lsd |-> 0,
     std |-> TRUE, bad |-> TRUE]

\* dict.pop(key) and dict[key] = value on radar.fields
Pop(F, key) == [n \in DOMAIN F \ {key} |-> F[n]]
Put(F, key, v) == [n \in DOMAIN F \cup {key} |-> IF n = key THEN v ELSE F[n]]

\* faulty variant: only the first key of the denylist is dropped
DropKeys_first(F) == Pop(F, "temperature")

\* for key in klist: if key in keys_drop: radar.fields.pop(key)
DropKeys(F) == [n \in DOMAIN F \ keys_drop |-> F[n]]

\* try: add_field("corrected_reflectivity", fields.pop("reflectivity")), then
\* refill with NaN; pop raises KeyError when the field is absent, add_field
\* raises ValueError (after the pop) when the target exists
RenameReflectivity(F) ==
    IF "reflectivity" \notin DOMAIN F THEN F
    ELSE IF "corrected_reflectivity" \in DOMAIN F THEN Pop(F, "reflectivity")
    ELSE Put(Pop(F, "reflectivity"), "corrected_reflectivity",
             [F["reflectivity"] EXCEPT !.afill = "NaN"])

\* try: fields["velocity"] = fields.pop("raw_velocity");
\*      add_field("corrected_velocity", fields.pop("region_dealias_velocity"))
RenameVelocity(F) ==
    IF "raw_velocity" \notin DOMAIN F THEN F
    ELSE LET G == Put(Pop(F, "raw_velocity"), "velocity", F["raw_velocity"])
         IN IF "region_dealias_velocity" \notin DOMAIN G THEN G
            ELSE IF "corrected_velocity" \in DOMAIN G
                 THEN Pop(G, "region_dealias_velocity")
            ELSE Put(Pop(G, "region_dealias_velocity"), "corrected_velocity",
                     G["region_dealias_velocity"])

\* try: echo class as int32 with fill value -9999
EchoClass(F) ==
    IF "radar_echo_classification" \notin DOMAIN F THEN F
    ELSE [F EXCEPT !["radar_echo_classification"] =
              [@ EXCEPT !.dtype = "int32", !.afill = "-9999",
                        !.FillValue = "-9999"]]

\* radar.fields["radar_estimated_rain_rate"]["_Least_significant_digit"] = 2
\* (outside any try: KeyError when the field is absent)
RainRateRaises(F) == "radar_estimated_rain_rate" \notin DOMAIN F
RainRate(F) == [F EXCEPT !["radar_estimated_rain_rate"] = [@ EXCEPT !.lsd = 2]]

\* try: NW loses its standard_name and gets NaN fill values and 2 digits
NWFix(F) ==
    IF "NW" \notin DOMAIN F \/ ~F["NW"].std THEN F
    ELSE [F EXCEPT !["NW"] =
              [@ EXCEPT !.std = FALSE, !.afill = "NaN", !.FillValue = "NaN",
                        !.lsd = 2]]

\* faulty variant: the cast to float32 is missing
TableEntry_nocast(f, e) ==
    [f EXCEPT !.afill = e.fill, !.lsd = e.lsd, !.FillValue = e.fill]

\* one table entry applied to a field dictionary
TableEntry(f, e) ==
    [f EXCEPT !.afill = e.fill, !.dtype = "float32", !.lsd = e.lsd,
              !.FillValue = e.fill]

RECURSIVE TableApply(_, _, _)
\* for key, least_digit, fvalue in klist_pr[i:]: skip keys not in klist;
\* try the edit (KeyError when the field is not in radar.fields: continue)
TableApply(F, kl, i) ==
    IF i > Len(klist_pr) THEN F
    ELSE LET e == klist_pr[i]
         IN IF e.key \notin kl THEN TableApply(F, kl, i + 1)
            ELSE IF e.key \notin DOMAIN F THEN TableApply(F, kl, i + 1)
            ELSE TableApply([F EXCEPT ![e.key] = TableEntry(@, e)], kl, i + 1)

\* for k in radar.fields: pop every bad attribute, ignoring KeyError
StripBad(F) == [n \in DOMAIN F |-> [F[n] EXCEPT !.bad = FALSE]]

\* ------------------------------------------------------------------------
\* update_data(infile) step by step; Rerun calls it again on the same input
\* with the same output root.
\* ------------------------------------------------------------------------
\* the start time of the fixed fallback level 1a file
FallbackStamp == Stamp(2017, 3, 4, 0, 0, 6)

\* the directory of the level 1a files
A1Dir ==
    <<"/", "g", "/", "d", "a", "t", "a", "/", "h", "j", "1", "0",
      "/", "c", "p", "o", "l", "_", "l", "e", "v", "e", "l", "_",
      "1", "a", "/", "v", "2", "0", "1", "9", "/", "p", "p", "i",
      "/">>

A1Prefix ==
    <<"t", "w", "p", "1", "0", "c", "p", "o", "l", "p", "p", "i",
      ".", "a", "1", ".">>

yrstr(t) == strftime_Y(t)

\* the companion level 1a file of a volume that starts at t
companion(t) ==
    A1Dir \o yrstr(t) \o <<"/">> \o daystr(t) \o <<"/">>
    \o A1Prefix \o datestr(t) \o <<"0", "0">> \o NC

\* the file read when the companion is missing
FallbackFile ==
    <<"/", "g", "/", "d", "a", "t", "a", "/", "h", "j", "1", "0",
      "/", "c", "p", "o", "l", "_", "l", "e", "v", "e", "l", "_",
      "1", "a", "/", "v", "2", "0", "1", "9", "/", "p", "p", "i",
      "/", "2", "0", "1", "7", "/", "2", "0", "1", "7", "0", "3",
      "0", "4", "/", "t", "w", "p", "1", "0", "c", "p", "o", "l",
      "p", "p", "i", ".", "a", "1", ".", "2", "0", "1", "7", "0",
      "3", "0", "4", ".", "0", "0", "0", "0", "0", "0", ".", "n",
      "c">>

\* the level 1a files update_data may look at for a volume that starts at t
AuxFiles(t) == {companion(t), FallbackFile}

Stamps == {Stamp(2017, 3, 4, 0, 0, 6), Stamp(1998, 12, 31, 23, 50, 9)}

Roots == {OUTPATH, <<"/", "o", "2", "/">>}

\* input files: readable volumes with a few fields, or an unreadable file
Inputs ==
    {[ok |-> TRUE, start |-> t, names |-> F] :
        t \in Stamps, F \in {X \in SUBSET FieldNames : Cardinality(X) <= MaxFields}}
    \cup {[ok |-> FALSE, start |-> FallbackStamp, names |-> {}]}

NoFields == [n \in {} |-> InField(n)]

TrIdle ==
    /\ tpc = "idle" /\ tin = [ok |-> FALSE, start |-> FallbackStamp, names |-> {}]
    /\ troot = OUTPATH /\ fields = NoFields /\ klist = {} /\ outname = <<>>
    /\ disk = {} /\ fone = <<>> /\ out = <<>> /\ nwrites = 0 /\ run = 0

TrInit ==
    /\ tpc = "start" /\ tin \in Inputs /\ troot \in Roots
    /\ fields = NoFields /\ klist = {} /\ outname = <<>>
    /\ disk = {troot} /\ fone = <<>> /\ out = <<>> /\ nwrites = 0 /\ run = 1

\* radar = pyart.io.read(infile); start date and output names
ReadInput ==
    /\ tpc = "start"
    /\ IF tin.ok
       THEN /\ fields' = [n \in tin.names |-> InField(n)]
            /\ outname' = outfilename(troot, tin.start)
            /\ tpc' = "mkdir"
       ELSE /\ tpc' = "raised"
            /\ UNCHANGED <<fields, outname>>
    /\ UNCHANGED <<tin, troot, klist, disk, fone, out, nwrites, run>>

\* os.mkdir(outdir) and os.mkdir(outdir_day), FileExistsError ignored
MakeDirs ==
    /\ tpc = "mkdir"
    /\ disk' = disk \cup {outdir(troot, tin.start), outdir_day(troot, tin.start)}
    /\ tpc' = "aux"
    /\ UNCHANGED <<tin, troot, fields, klist, outname, fone, out, nwrites, run>>

\* fone is the companion file, or the fixed fallback when it is missing;
\* pyart.io.read(fone) raises when the file it is given is missing too;
\* present is the set of level 1a files that exist
LoadAux(present) ==
    /\ tpc = "aux"
    /\ fone' = IF companion(tin.start) \in present
               THEN companion(tin.start) ELSE FallbackFile
    /\ tpc' = IF fone' \in present THEN "drop" ELSE "raised"
    /\ UNCHANGED <<tin, troot, fields, klist, outname, disk, out, nwrites, run>>

\* klist = list(radar.fields.keys()); drop the obsolete keys
Drop ==
    /\ tpc = "drop"
    /\ klist' = DOMAIN fields
    /\ fields' = DropKeys(fields)
    /\ tpc' = "refl"
    /\ UNCHANGED <<tin, troot, outname, disk, fone, out, nwrites, run>>

RenameRefl ==
    /\ tpc = "refl"
    /\ fields' = RenameReflectivity(fields)
    /\ tpc' = "vel"
    /\ UNCHANGED <<tin, troot, klist, outname, disk, fone, out, nwrites, run>>

RenameVel ==
    /\ tpc = "vel"
    /\ fields' = RenameVelocity(fields)
    /\ tpc' = "norm"
    /\ UNCHANGED <<tin, troot, klist, outname, disk, fone, out, nwrites, run>>

\* echo class, rain rate, NW, the field-edit table, bad attributes
Normalize ==
    /\ tpc = "norm"
    /\ IF RainRateRaises(EchoClass(fields))
       THEN /\ fields' = EchoClass(fields)
            /\ tpc' = "raised"
       ELSE /\ fields' = StripBad(TableApply(NWFix(RainRate(EchoClass(fields))),
                                             klist, 1))
            /\ tpc' = "write"
    /\ UNCHANGED <<tin, troot, klist, outname, disk, fone, out, nwrites, run>>

\* pyart.io.write_cfradial(outfilename, radar)
Write ==
    /\ tpc = "write"
    /\ disk' = disk \cup {outname}
    /\ out' = <<fields>>
    /\ nwrites' = nwrites + 1
    /\ tpc' = "done"
    /\ UNCHANGED <<tin, troot, fields, klist, outname, fone, run>>

\* the same input is processed again with the same output root
Rerun ==
    /\ tpc = "done" /\ run < MaxRuns
    /\ run' = run + 1
    /\ tpc' = "start"
    /\ fields' = NoFields /\ klist' = {} /\ outname' = <<>> /\ fone' = <<>>
    /\ UNCHANGED <<tin, troot, disk, out, nwrites>>

\* ------------------------------------------------------------------------
\* reprocess_v2018: main extracts one zip, maps update_dataset over its
\* members in a dask bag (tasks run in parallel) and removes the inputs whose
\* call returned a value.
\*   rzip   the members of the zip; each has a start time, is readable by
\*          xr.open_dataset or not (ok), and carries the product_version and
\*          created attributes or not (attrs)
\*   rtask  where each update_dataset call is
\*   rin    the extracted inputs on disk
\*   rout   the output files on disk, each with the member it was written
\*          from (0: it was there before this run)
\*   rattrs the attributes update_dataset gave the dataset of each member,
\*          each value standing for its Python type
\* ------------------------------------------------------------------------
\* outpath of the zip
outpath == <<"/", "t", "m", "p">>

\* os.path.join(path, "twp10cpolppi.b1.{}00.nc".format(strftime("%Y%m%d.%H%M")))
fname(t) == Join(outpath, B1Prefix \o datestr(t) \o <<"0", "0">> \o NC)

Members ==
    {[start |-> Stamp(2017, 3, 4, 0, 0, 6), ok |-> TRUE, attrs |-> TRUE],
     [start |-> Stamp(2017, 3, 4, 0, 0, 36), ok |-> TRUE, attrs |-> TRUE],
     [start |-> Stamp(2017, 3, 4, 0, 10, 6), ok |-> TRUE, attrs |-> TRUE],
     [start |-> Stamp(2017, 3, 4, 0, 20, 6), ok |-> TRUE, attrs |-> FALSE],
     [start |-> Stamp(2017, 3, 4, 0, 30, 6), ok |-> FALSE, attrs |-> FALSE]}

\* the keys of the dict literal of get_metadata
MetadataKeys ==
    {"Conventions", "acknowledgement", "country", "creator_email",
     "creator_name", "creator_url", "date_modified", "field_names",
     "geospatial_bounds", "geospatial_lat_max", "geospatial_lat_min",
     "geospatial_lat_units", "geospatial_lon_max", "geospatial_lon_min",
     "geospatial_lon_units", "id", "institution", "instrument",
     "instrument_name", "instrument_type", "keywords", "licence",
     "naming_authority", "origin_altitude", "origin_latitude",
     "origin_longitude", "platform_is_mobile", "processing_level",
     "project", "publisher_name", "publisher_url", "references",
     "site_name", "source", "state", "standard_name_vocabulary", "summary",
     "time_coverage_start", "time_coverage_end", "time_coverage_duration",
     "time_coverage_resolution", "title", "uuid"}

\* get_metadata: every value of the literal is a string (a string literal,
\* an f-string, str(...), isoformat() or ", ".join(...))
get_metadata(radar_start_date, radar_end_date) ==
    [key \in MetadataKeys |-> "str"]

\* the four entries update_dataset adds: "v" + product_version twice (str),
\* (created,) and ("created by ... " + created + " using Py-ART",), both
\* tuples of one string because of the trailing comma
update_metadata(m) ==
    [key \in DOMAIN m \cup {"product_version", "version", "date_created",
                            "history"} |->
        IF key \in {"product_version", "version"} THEN "str"
        ELSE IF key \in {"date_created", "history"} THEN "tuple"
        ELSE m[key]]

NoAttrs == [key \in {} |-> "str"]

NoOutputs == [p \in {} |-> 0]

RpIdle ==
    /\ rzip = <<>> /\ rmain = "idle" /\ rtask = <<>> /\ rin = {}
    /\ rout = NoOutputs /\ rattrs = <<>>

\* an output of the first minute may be left from an earlier run
RpInit ==
    /\ rzip \in UNION {[1..n -> Members] : n \in 1..MaxInputs}
    /\ rmain = "start" /\ rtask = <<>> /\ rin = {} /\ rattrs = <<>>
    /\ rout \in {NoOutputs,
                 [p \in {fname(Stamp(2017, 3, 4, 0, 0, 6))} |-> 0]}

\* extract_zip, mkdir(outpath), the bag is built and compute() starts
Extract ==
    /\ rmain = "start"
    /\ rin' = 1..Len(rzip)
    /\ rtask' = [i \in 1..Len(rzip) |-> "todo"]
    /\ rattrs' = [i \in 1..Len(rzip) |-> NoAttrs]
    /\ rmain' = "compute"
    /\ UNCHANGED <<rzip, rout>>

\* xr.open_dataset (raises on an unreadable file); the output name; return
\* None when the output exists
OpenCheck(i) ==
    /\ rmain = "compute" /\ rtask[i] = "todo"
    /\ rtask' = [rtask EXCEPT ![i] =
                    IF ~rzip[i].ok THEN "raised"
                    ELSE IF fname(rzip[i].start) \in DOMAIN rout THEN "none"
                    ELSE "checked"]
    /\ UNCHANGED <<rzip, rmain, rin, rout, rattrs>>

\* what dset.to_netcdf(outfilename) can do: write the file, return without
\* leaving a file, or raise
WriteOutcomes == {"written", "nothing", "raises"}

\* drop keys, build the metadata (KeyError without the attributes),
\* to_netcdf, then the test of the output: return None when no file is at
\* outfilename, radar_file when one is (whoever wrote it)
WriteOut(i, outcome) ==
    /\ rmain = "compute" /\ rtask[i] = "checked"
    /\ rattrs' = IF rzip[i].attrs
                 THEN [rattrs EXCEPT ![i] =
                          update_metadata(get_metadata(rzip[i].start,
                                                       rzip[i].start))]
                 ELSE rattrs
    /\ IF ~rzip[i].attrs \/ outcome = "raises"
       THEN /\ rtask' = [rtask EXCEPT ![i] = "raised"]
            /\ rout' = rout
       ELSE /\ rout' = IF outcome = "nothing" THEN rout
                       ELSE [p \in DOMAIN rout \cup {fname(rzip[i].start)} |->
                               IF p = fname(rzip[i].start) THEN i ELSE rout[p]]
            /\ rtask' = [rtask EXCEPT ![i] =
                            IF fname(rzip[i].start) \in DOMAIN rout'
                            THEN "file" ELSE "none"]
    /\ UNCHANGED <<rzip, rmain, rin>>

Ended(i) == rtask[i] \in {"none", "file", "raised"}

\* rslt = bag.compute() returned; remove(rslt) deletes the inputs whose
\* result is not None
Remove ==
    /\ rmain = "compute"
    /\ \A i \in 1..Len(rzip) : rtask[i] \in {"none", "file"}
    /\ rin' = rin \ {i \in 1..Len(rzip) : rtask[i] = "file"}
    /\ rmain' = "removed"
    /\ UNCHANGED <<rzip, rtask, rout, rattrs>>

\* an exception of a task escapes bag.compute() and main
ComputeRaises ==
    /\ rmain = "compute"
    /\ \E i \in 1..Len(rzip) : rtask[i] = "raised"
    /\ rmain' = "aborted"
    /\ UNCHANGED <<rzip, rtask, rin, rout, rattrs>>

\* ------------------------------------------------------------------------
\* The input tree: entries are files below INPATH, each with its path
\* components and the start time stored in its time coordinate; the
\* directories are the proper prefixes of the paths.
\* ------------------------------------------------------------------------
\* the i-th volume of the year: one per ten minutes, spread over two day
\* directories
DayFile(i) ==
    [path |-> <<Dec(YEAR), <<"d", Digit(i % 2)>>, <<"f">> \o Dec(i) \o NC>>,
     start |-> Stamp(2017, 3, 4, i \div 6, 10 * (i % 6), 6)]

\* a volume one directory deeper than the day directories
DeepFile ==
    [path |-> <<Dec(YEAR), <<"d", "1">>, <<"s", "u", "b">>, <<"x">> \o NC>>,
     start |-> Stamp(2017, 3, 5, 0, 0, 6)]

\* a second volume started in the minute of DayFile(1), 30 s later
RescanFile ==
    [path |-> <<Dec(YEAR), <<"d", "1">>, <<"f", "1", "b">> \o NC>>,
     start |-> Stamp(2017, 3, 4, 0, 10, 36)]

\* a volume kept in a directory whose own name ends in .nc
DirNcFile ==
    [path |-> <<Dec(YEAR), <<"d", "1">>, <<"d", "i", "r">> \o NC, <<"x">> \o NC>>,
     start |-> Stamp(2017, 3, 6, 0, 0, 6)]

\* files that are always there: a text file and a volume of another year
OtherFiles ==
    {[path |-> <<Dec(YEAR), <<"d", "1">>, <<"l", "o", "g", ".", "t", "x", "t">>>>,
      start |-> Stamp(2017, 1, 1, 0, 0, 0)],
     [path |-> <<Dec(YEAR - 1), <<"d", "0">>, <<"f", "1">> \o NC>>,
      start |-> Stamp(2016, 3, 4, 0, 10, 6)]}

Trees ==
    {{DayFile(i) : i \in 1..m} \cup extra \cup OtherFiles :
        m \in 0..MaxFiles,
        extra \in {{}, {DeepFile}, {RescanFile}, {DirNcFile}}}

RECURSIVE JoinAll(_, _)
\* os.path.join(root, *comps)
JoinAll(root, comps) ==
    IF comps = <<>> THEN root ELSE JoinAll(Join(root, Head(comps)), Tail(comps))

PathOf(e) == JoinAll(INPATH, e.path)

\* p is a file of tree t (os.path.isfile)
IsFile(t, p) == \E e \in t : PathOf(e) = p

\* the start time read from the file at path p of tree t
StartOf(t, p) == (CHOOSE e \in t : PathOf(e) = p).start

\* ------------------------------------------------------------------------
\* glob.glob(os.path.join(INPATH, str(YEAR), "**", "*.nc")), recursive=False
\* ------------------------------------------------------------------------
\* glob never matches a name starting with '.' against a pattern that does not
Hidden(name) == Len(name) > 0 /\ name[1] = "."

\* fnmatch(name, "*") and, without recursive=True, fnmatch(name, "**")
MatchStar(name) == ~Hidden(name)

\* fnmatch(name, "*.nc")
MatchNc(name) == ~Hidden(name) /\ EndsWith(name, NC)

\* the paths <INPATH>/<YEAR>/<one directory>/<name>.nc, files and
\* directories alike: glob matches names
glob(t) ==
    {JoinAll(INPATH, SubSeq(e.path, 1, 3)) :
        e \in {x \in t : /\ Len(x.path) >= 3
                         /\ x.path[1] = Dec(YEAR)
                         /\ MatchStar(x.path[2])
                         /\ MatchNc(x.path[3])}}

\* ------------------------------------------------------------------------
\* update_cpol1b.main: scan, then one pebble ProcessPool per chunk.
\*   sched      number of tasks of the chunk handed to a worker so far
\*   running    tasks a worker is executing update_data for
\*   consumed   number of results taken from the map iterator
\*   submitted  every file passed to pool.map so far, in order
\* ------------------------------------------------------------------------
MainIdle ==
    /\ tree = {} /\ flist = <<>> /\ pc = "idle" /\ k = 0 /\ pool = "none"
    /\ ntasks = 0 /\ sched = 0 /\ running = {} /\ consumed = 0
    /\ submitted = <<>> /\ npools = 0 /\ last = "none"

MainInit ==
    /\ tree \in Trees
    /\ flist = <<>> /\ pc = "start" /\ k = 0 /\ pool = "none"
    /\ ntasks = 0 /\ sched = 0 /\ running = {} /\ consumed = 0
    /\ submitted = <<>> /\ npools = 0 /\ last = "none"

\* faulty variant: the empty list is not rejected
Scan_nocheck ==
    /\ pc = "start"
    /\ flist' = sorted(glob(tree))
    /\ pc' = "loop" /\ k' = 1
    /\ UNCHANGED <<tree, pool, ntasks, sched, running, consumed, submitted,
                   npools, last>>

\* flist = sorted(glob.glob(indir)); raise FileNotFoundError when it is empty
Scan ==
    /\ pc = "start"
    /\ flist' = sorted(glob(tree))
    /\ IF Len(flist') = 0 THEN pc' = "raised" /\ k' = k
                          ELSE pc' = "loop" /\ k' = 1
    /\ UNCHANGED <<tree, pool, ntasks, sched, running, consumed, submitted,
                   npools, last>>

\* next chunk; with ProcessPool() as pool; pool.map(update_data, chunk)
OpenPool ==
    /\ pc = "loop" /\ k <= Len(chunks(flist, ChunkSize))
    /\ pool' = "open" /\ npools' = npools + 1
    /\ ntasks' = Len(chunks(flist, ChunkSize)[k])
    /\ submitted' = submitted \o chunks(flist, ChunkSize)[k]
    /\ sched' = 0 /\ running' = {} /\ consumed' = 0
    /\ pc' = "iter"
    /\ UNCHANGED <<tree, flist, k, last>>

\* a free worker takes the next task of the chunk and calls update_data
StartTask ==
    /\ pool = "open" /\ sched < ntasks /\ Cardinality(running) < MaxWorkers
    /\ sched' = sched + 1
    /\ running' = running \cup {sched + 1}
    /\ UNCHANGED <<tree, flist, pc, k, pool, ntasks, consumed, submitted,
                   npools, last>>

\* the call ends: it returned, raised, its process died, or the pool stopped
\* it at the timeout; the future now holds the outcome
FinishTask(i) ==
    /\ i \in running
    /\ running' = running \ {i}
    /\ UNCHANGED <<tree, flist, pc, k, pool, ntasks, sched, consumed,
                   submitted, npools, last>>

ResultReady ==
    /\ pc = "iter" /\ consumed < ntasks
    /\ consumed + 1 <= sched /\ (consumed + 1) \notin running

\* result = next(iterator): a value, or the pool's TimeoutError,
\* ProcessExpired or any other Exception, each printed by its handler; the
\* loop goes on
Result(kind) ==
    /\ ResultReady
    /\ consumed' = consumed + 1
    /\ last' = kind
    /\ UNCHANGED <<tree, flist, pc, k, pool, ntasks, sched, running,
                   submitted, npools>>

\* next(iterator) re-raises a TimeoutError that update_data itself raised
\* and whose args[1] is no number (none, or the text of an I/O timeout).
\* Where concurrent.futures.TimeoutError is the builtin class (Python 3.11
\* and later) the except TimeoutError handler takes it and its print raises
\* IndexError or TypeError: the error leaves the loop and main enters the
\* exit of the with block. On earlier versions it is one more Exception:
\* Result.
TimeoutHandlerRaises ==
    /\ ResultReady
    /\ consumed' = consumed + 1
    /\ last' = "builtin_timeout"
    /\ pc' = "leaving"
    /\ UNCHANGED <<tree, flist, k, pool, ntasks, sched, running, submitted,
                   npools>>

\* the exit of the with block with the error pending: close() and join()
\* wait while the workers run the queued tasks of the chunk (StartTask,
\* FinishTask); then the pool is gone and the error leaves main
LeaveWithError ==
    /\ pc = "leaving" /\ sched = ntasks /\ running = {}
    /\ pool' = "none"
    /\ pc' = "raised"
    /\ UNCHANGED <<tree, flist, k, ntasks, sched, running, consumed,
                   submitted, npools, last>>

\* faulty variant: the loop is left without closing and joining the pool
StopIteration_noclose ==
    /\ pc = "iter" /\ consumed = ntasks
    /\ k' = k + 1
    /\ pc' = "loop"
    /\ UNCHANGED <<tree, flist, pool, ntasks, sched, running, consumed,
                   submitted, npools, last>>

\* StopIteration: break, leave the with block (pool closed and joined)
StopIteration ==
    /\ pc = "iter" /\ consumed = ntasks
    /\ pool' = "none"
    /\ k' = k + 1
    /\ pc' = "loop"
    /\ UNCHANGED <<tree, flist, ntasks, sched, running, consumed, submitted,
                   npools, last>>

\* the chunks are exhausted: return None
Return ==
    /\ pc = "loop" /\ k > Len(chunks(flist, ChunkSize))
    /\ pc' = "returned"
    /\ UNCHANGED <<tree, flist, k, pool, ntasks, sched, running, consumed,
                   submitted, npools, last>>

ResultKinds == {"value", "timeout", "expired", "raised"}

InitChunks == ChunksDraw /\ MainIdle /\ TrIdle /\ RpIdle
NextChunks == ChunksApply /\ UNCHANGED <<mainVars, trVars, rpVars>>
SpecChunks == InitChunks /\ [][NextChunks]_vars

InitMain == MainInit /\ ChunksIdle /\ TrIdle /\ RpIdle
NextMain ==
    \/ Scan /\ UNCHANGED <<chunkVars, trVars, rpVars>>
    \/ OpenPool /\ UNCHANGED <<chunkVars, trVars, rpVars>>
    \/ StartTask /\ UNCHANGED <<chunkVars, trVars, rpVars>>
    \/ (\E i \in 1..ChunkSize : FinishTask(i)) /\ UNCHANGED <<chunkVars, trVars, rpVars>>
    \/ (\E kind \in ResultKinds : Result(kind)) /\ UNCHANGED <<chunkVars, trVars, rpVars>>
    \/ TimeoutHandlerRaises /\ UNCHANGED <<chunkVars, trVars, rpVars>>
    \/ LeaveWithError /\ UNCHANGED <<chunkVars, trVars, rpVars>>
    \/ StopIteration /\ UNCHANGED <<chunkVars, trVars, rpVars>>
    \/ Return /\ UNCHANGED <<chunkVars, trVars, rpVars>>
SpecMain == InitMain /\ [][NextMain]_vars

InitUpdate == TrInit /\ ChunksIdle /\ MainIdle /\ RpIdle
NextUpdate ==
    \/ ReadInput /\ UNCHANGED <<chunkVars, mainVars, rpVars>>
    \/ MakeDirs /\ UNCHANGED <<chunkVars, mainVars, rpVars>>
    \/ (\E present \in SUBSET AuxFiles(tin.start) : LoadAux(present)) /\ UNCHANGED <<chunkVars, mainVars, rpVars>>
    \/ Drop /\ UNCHANGED <<chunkVars, mainVars, rpVars>>
    \/ RenameRefl /\ UNCHANGED <<chunkVars, mainVars, rpVars>>
    \/ RenameVel /\ UNCHANGED <<chunkVars, mainVars, rpVars>>
    \/ Normalize /\ UNCHANGED <<chunkVars, mainVars, rpVars>>
    \/ Write /\ UNCHANGED <<chunkVars, mainVars, rpVars>>
    \/ Rerun /\ UNCHANGED <<chunkVars, mainVars, rpVars>>
SpecUpdate == InitUpdate /\ [][NextUpdate]_vars

InitReprocess == RpInit /\ ChunksIdle /\ MainIdle /\ TrIdle
NextReprocess ==
    \/ Extract /\ UNCHANGED <<chunkVars, mainVars, trVars>>
    \/ (\E i \in 1..Len(rzip) : OpenCheck(i))
           /\ UNCHANGED <<chunkVars, mainVars, trVars>>
    \/ (\E i \in 1..Len(rzip), w \in WriteOutcomes : WriteOut(i, w))
           /\ UNCHANGED <<chunkVars, mainVars, trVars>>
    \/ Remove /\ UNCHANGED <<chunkVars, mainVars, trVars>>
    \/ ComputeRaises /\ UNCHANGED <<chunkVars, mainVars, trVars>>
SpecReprocess == InitReprocess /\ [][NextReprocess]_vars

\* ------------------------------------------------------------------------
\* Claims about chunks (SpecChunks)
\* ------------------------------------------------------------------------
RECURSIVE Flatten(_)
Flatten(gs) == IF gs = <<>> THEN <<>> ELSE Head(gs) \o Flatten(Tail(gs))

\* C4: chunks(l, n) yields ceil(len(l)/n) contiguous groups, all but the last
\* of exactly n elements, none empty, whose concatenation is l; 17 elements
\* with n = 16 give two groups of 16 and 1.
C4_ChunksPartition ==
    cout[1] = "done" =>
        LET gs == cout[2]
        IN /\ Len(gs) = (Len(cl) + cn - 1) \div cn
           /\ \A g \in 1..Len(gs) - 1 : Len(gs[g]) = cn
           /\ \A g \in 1..Len(gs) : Len(gs[g]) >= 1 /\ Len(gs[g]) <= cn
           /\ Flatten(gs) = cl
           /\ (Len(cl) = 17 /\ cn = 16 =>
                  Len(gs) = 2 /\ Len(gs[1]) = 16 /\ Len(gs[2]) = 1)

C4_Witness ==
    /\ cout[1] = "done" /\ Len(cl) = 17 /\ cn = 16
    /\ Len(cout[2]) = 2 /\ cout[2][2] = <<17>>

\* ------------------------------------------------------------------------
\* Claims about update_cpol1b.main (SpecMain)
\* ------------------------------------------------------------------------
\* the files of the chunks 1..n of the list, in order
SubmittedUpTo(n) == Flatten(SubSeq(chunks(flist, ChunkSize), 1, n))

\* C1: a failed work item never aborts the run: whatever results the
\* iterator gave, the whole current chunk has been submitted, the loop is
\* never stuck (a result can be taken, or a task can start or end), main
\* raises only the no-input error, and when it returns every file has been
\* submitted exactly once.
C1_FailuresDoNotAbort ==
    /\ pc = "raised" => flist = <<>> /\ last = "none"
    /\ pc = "iter" => submitted = SubmittedUpTo(k)
    /\ pc = "loop" => submitted = SubmittedUpTo(k - 1)
    /\ pc = "returned" => submitted = flist
    /\ pc = "iter" => \/ consumed = ntasks
                      \/ ResultReady
                      \/ running # {}
                      \/ sched < ntasks /\ Cardinality(running) < MaxWorkers

\* C3: with no file found main raises FileNotFoundError before any chunk is
\* formed, any pool is created or any update_data call is submitted.
C3_NoInputRaises ==
    (pc # "start" /\ Len(flist) = 0) =>
        /\ pc = "raised"
        /\ k = 0 /\ npools = 0 /\ pool = "none"
        /\ submitted = <<>> /\ sched = 0 /\ running = {}

C3_Witness == pc = "raised" /\ glob(tree) = {} /\ npools = 0

\* the *.nc files below <INPATH>/<YEAR>, at any depth
NcUnderYear(t) ==
    {PathOf(e) : e \in {x \in t : /\ Len(x.path) >= 2
                                 /\ x.path[1] = Dec(YEAR)
                                 /\ EndsWith(x.path[Len(x.path)], NC)}}

IsSorted(l) == \A i \in 1..Len(l) - 1 : StrLess(l[i], l[i + 1])

\* C5: main enumerates every *.nc file at any depth below <INPATH>/<YEAR> and
\* submits them in sorted order.
C5_RecursiveSortedScan ==
    pc # "start" =>
        /\ {flist[i] : i \in 1..Len(flist)} = NcUnderYear(tree)
        /\ IsSorted(flist)

\* the files whose update_data call has been started in this run
Started == {submitted[i] : i \in 1..(Len(submitted) - ntasks + sched)}

\* C9: no two update_data invocations of one run, on distinct input files,
\* write the same output file path.
C9_NoSharedOutput ==
    \A f, g \in {p \in Started : IsFile(tree, p)} :
        f # g => outfilename(OUTPATH, StartOf(tree, f))
                 # outfilename(OUTPATH, StartOf(tree, g))

\* ------------------------------------------------------------------------
\* Claims about update_cpol1b.update_data (SpecUpdate)
\* ------------------------------------------------------------------------
\* the update_data steps that follow the computation of the output path
AfterPath == {"mkdir", "aux", "drop", "refl", "vel", "norm", "write", "done"}

\* C2: a second run of update_data on the same input with the same output
\* root finds the output path present and is skipped before directory
\* creation, auxiliary loading, field edits and serialization: it writes
\* nothing.
C2_SecondRunSkipped ==
    (run >= 2 /\ outfilename(troot, tin.start) \in disk) =>
        /\ nwrites = 1
        /\ tpc \notin {"aux", "drop", "refl", "vel", "norm", "write"}

\* C6: once the denylist has been applied no obsolete field is in the Volume,
\* no later step re-adds one, and none is in the Volume that is written.
C6_NoObsoleteFields ==
    /\ tpc \in {"refl", "vel", "norm", "write", "done"} =>
           DOMAIN fields \cap keys_drop = {}
    /\ out # <<>> => DOMAIN out[1] \cap keys_drop = {}

C6_Witness ==
    /\ tpc = "done" /\ out # <<>>
    /\ {"temperature", "velocity_texture"} \subseteq tin.names
    /\ "velocity" \in DOMAIN out[1]
    /\ DOMAIN out[1] \cap keys_drop = {}

TableKeys == {klist_pr[i].key : i \in 1..Len(klist_pr)}
EntryOf(key) == klist_pr[CHOOSE i \in 1..Len(klist_pr) : klist_pr[i].key = key]

\* C7: every table field of the input is written as float32 with the
\* _FillValue and _Least_significant_digit of its table entry, and the table
\* step creates no field.
C7_TableApplied ==
    /\ [](tpc = "done" =>
            \A n \in tin.names \cap TableKeys :
                /\ n \in DOMAIN out[1]
                /\ out[1][n].dtype = "float32"
                /\ out[1][n].FillValue = EntryOf(n).fill
                /\ out[1][n].afill = EntryOf(n).fill
                /\ out[1][n].lsd = EntryOf(n).lsd)
    /\ [][tpc = "norm" => DOMAIN fields' = DOMAIN fields]_vars

C7_Witness ==
    /\ tpc = "done"
    /\ {"D0", "cross_correlation_ratio", "velocity"} \subseteq tin.names
    /\ out[1]["cross_correlation_ratio"].lsd = 4
    /\ "corrected_velocity" \notin DOMAIN out[1]

Two(n) == <<Digit(n \div 10), Digit(n % 10)>>
Four(n) == Two(n \div 100) \o Two(n % 100)
YMD(t) == Four(t.year) \o Two(t.month) \o Two(t.day)

\* <root>/<YYYY>/<YYYYMMDD>/twp10cpolppi.b1.<YYYYMMDD>.<HHMM>00.nc
ExpectedPath(root, t) ==
    (IF root[Len(root)] = "/" THEN root ELSE root \o <<"/">>)
    \o Four(t.year) \o <<"/">> \o YMD(t) \o <<"/">>
    \o B1Prefix \o YMD(t) \o <<".">> \o Two(t.hour) \o Two(t.minute)
    \o <<"0", "0", ".", "n", "c">>

ExamplePath == 
    <<"/", "o", "u", "t", "/", "2", "0", "1", "7", "/",
      "2", "0", "1", "7", "0", "3", "0", "4", "/",
      "t", "w", "p", "1", "0", "c", "p", "o", "l", "p", "p", "i", ".", "b", "1", ".",
      "2", "0", "1", "7", "0", "3", "0", "4", ".", "0", "0", "0", "0", "0", "0", ".", "n", "c">>

\* C8: the output path is <root>/<YYYY>/<YYYYMMDD>/twp10cpolppi.b1.
\* <YYYYMMDD>.<HHMM>00.nc of the start time, whatever its seconds and the
\* fields of the input; 2017-03-04T00:00:06 under /out gives the example path;
\* the file is written at that path.
C8_OutputPath ==
    /\ (tin.ok /\ tpc \in AfterPath) => outname = ExpectedPath(troot, tin.start)
    /\ (tin.ok /\ tpc \in AfterPath /\ troot = OUTPATH
        /\ tin.start = Stamp(2017, 3, 4, 0, 0, 6)) => outname = ExamplePath
    /\ tpc = "done" => outname \in disk

C8_Witness ==
    /\ tpc = "done" /\ troot = OUTPATH
    /\ tin.start = Stamp(2017, 3, 4, 0, 0, 6)
    /\ outname = ExamplePath /\ ExamplePath \in disk

\* ------------------------------------------------------------------------
\* Claims about reprocess_v2018 (SpecReprocess)
\* ------------------------------------------------------------------------
\* the call on member i has ended and its content is in no output file
Failed(i) ==
    /\ Ended(i)
    /\ \A p \in DOMAIN rout : rout[p] # i

\* C10: update_dataset returns None whenever processing of the file failed
\* and radar_file otherwise; a failure is never signalled in another way.
C10_FailureReturnsNone ==
    \A i \in 1..Len(rtask) :
        /\ Failed(i) => rtask[i] = "none"
        /\ rtask[i] # "raised"
        /\ (Ended(i) /\ ~Failed(i)) => rtask[i] = "file"

\* ------------------------------------------------------------------------
\* Claims about the rename and normalisation steps (SpecUpdate)
\* ------------------------------------------------------------------------
\* the three renames of update_data, source name and target name
Renames ==
    {[src |-> "reflectivity", dst |-> "corrected_reflectivity"],
     [src |-> "raw_velocity", dst |-> "velocity"],
     [src |-> "region_dealias_velocity", dst |-> "corrected_velocity"]}

\* the rename step is over
AfterRename == {"norm", "write", "done"}

\* rename r was carried out: the source's data is held under the target name
CarriedOut(r) ==
    /\ r.src \notin DOMAIN fields
    /\ r.dst \in DOMAIN fields
    /\ fields[r.dst].data = r.src

\* rename r cannot fail by itself on this input: its source is present and
\* add_field does not find its target (plain assignment never fails)
CanRename(r) ==
    /\ r.src \in tin.names
    /\ r.dst = "velocity" \/ r.dst \notin tin.names

\* C11: each rename is independently best-effort: whatever source fields are
\* present, a failing rename is swallowed and every other rename whose source
\* field is present is still carried out.
C11_RenamesIndependent ==
    (tin.ok /\ tpc \in AfterRename) =>
        \A r \in Renames : CanRename(r) => CarriedOut(r)

\* C12: in the normalisation steps a field that a step names but the Volume
\* lacks is skipped without error: whatever named fields are absent, the
\* normalisation raises nothing and update_data goes on to serialization.
C12_AbsentFieldsSkipped == [][tpc = "norm" => tpc' = "write"]_vars

\* C13: once the field-edit table has been applied, every table field of the
\* current Volume is float32 with the table's _Least_significant_digit and
\* _FillValue, the fields created by the rename step included.
C13_TableCoversRenamed ==
    tpc \in {"write", "done"} =>
        \A n \in DOMAIN fields \cap TableKeys :
            /\ fields[n].dtype = "float32"
            /\ fields[n].lsd = EntryOf(n).lsd
            /\ fields[n].FillValue = EntryOf(n).fill

\* C14: the auxiliary lookup is best-effort: with the companion file absent
\* update_data reads the fixed fallback file instead and goes on without
\* raising, whatever files exist.
C14_AuxBestEffort ==
    [][tpc = "aux" => (fone' \in AuxFiles(tin.start) /\ tpc' = "drop")]_vars

\* ------------------------------------------------------------------------
\* Claims about the chunk loop of update_cpol1b.main (SpecMain)
\* ------------------------------------------------------------------------
\* C15: the chunks are processed strictly one after the other: a pool exists
\* only while its chunk is iterated (or main waits in the exit of its with
\* block), it is the k-th pool created for chunk k,
\* only files of the chunks up to k are submitted, and whenever no pool
\* exists no update_data call is running and every result of the chunks
\* submitted so far has been consumed, unless main was left by an error:
\* then no further pool is created and no further chunk is submitted.
C15_ChunksSequential ==
    /\ pool = "open" <=> pc \in {"iter", "leaving"}
    /\ pc \in {"iter", "leaving"} => npools = k
    /\ pc = "loop" => npools = k - 1
    /\ pc \in {"iter", "leaving"} =>
                      /\ submitted = SubmittedUpTo(k)
                      /\ running \subseteq 1..sched
                      /\ consumed <= sched /\ sched <= ntasks
    /\ pool = "none" => /\ running = {}
                        /\ sched = ntasks
                        /\ pc # "raised" => consumed = ntasks
    /\ pc = "raised" => /\ npools \in {0, k}
                        /\ npools = k => submitted = SubmittedUpTo(k)

\* a file of the second chunk is being processed in the second pool, after
\* all sixteen results of the first chunk were consumed
C15_Witness ==
    /\ pc = "iter" /\ k = 2 /\ npools = 2 /\ pool = "open"
    /\ Len(submitted) = ChunkSize + 1
    /\ sched = 1 /\ running = {1} /\ consumed = 0

\* ------------------------------------------------------------------------
\* Claims about reprocess_v2018.update_dataset and main (SpecReprocess)
\* ------------------------------------------------------------------------
\* the Python types of a single string or scalar value
Scalars == {"str", "int", "float", "bool"}

\* C16: every value of the metadata record given to an output dataset is a
\* single string or scalar, never a tuple or another container.
C16_MetadataScalars ==
    \A i \in DOMAIN rattrs : \A key \in DOMAIN rattrs[i] :
        rattrs[i][key] \in Scalars

\* C17: the rename step never loses a field's data: whatever the input holds,
\* a target name included, after the rename step the data of every source
\* field is in the Volume under its old or its new name.
C17_RenameKeepsData ==
    (tin.ok /\ tpc \in AfterRename) =>
        \A r \in Renames :
            r.src \in tin.names =>
                \E n \in {r.src, r.dst} \cap DOMAIN fields :
                    fields[n].data = r.src

\* C18: main removes an extracted input only if an output written from that
\* very input exists: whatever the interleaving of the update_dataset calls,
\* no input is deleted whose content is in no output file.
C18_RemovedOnlyIfWritten ==
    rmain = "removed" =>
        \A i \in (1..Len(rzip)) \ rin : \E p \in DOMAIN rout : rout[p] = i

====
